---- MODULE Spec2Model ----
(***************************************************************************)
(* A model of the goa-go/router request router (router.go).                *)
(*                                                                         *)
(* Paths and patterns are sequences of one-character strings.  A method's  *)
(* trie (tree.go) is represented by the set of routes it holds; its        *)
(* operations addRoute, getValue and findCaseInsensitivePath are defined   *)
(* on that set.  Router.Register, compose, Router.allowed, Router.Handle   *)
(* and Router.Routes follow router.go statement by statement.              *)
(***************************************************************************)
EXTENDS Integers, Sequences, FiniteSets, TLC

VARIABLES
    trees,                  \* trees[r]: Go map method -> node of router r
    RedirectTrailingSlash,  \* [router -> BOOLEAN]
    RedirectFixedPath,      \* [router -> BOOLEAN]
    HandleMethodNotAllowed, \* [router -> BOOLEAN]
    HandleOPTIONS,          \* [router -> BOOLEAN]
    NotFound,               \* [router -> Handler]
    MethodNotAllowed,       \* [router -> Handler]
    req,                    \* the last request dispatched
    c,                      \* the goa.Context of the last dispatch
    prev,                   \* the context of the dispatch before it, of the same request
    nextCalls               \* calls of the continuation given to Routes()'s middleware

vars == <<trees, RedirectTrailingSlash, RedirectFixedPath, HandleMethodNotAllowed,
          HandleOPTIONS, NotFound, MethodNotAllowed, req, c, prev, nextCalls>>

config == <<trees, RedirectTrailingSlash, RedirectFixedPath, HandleMethodNotAllowed,
            HandleOPTIONS, NotFound, MethodNotAllowed>>

(***************************************************************************)
(* Bounds and input domains                                                *)
(***************************************************************************)
MaxRoutes == 3          \* trie roots plus routes a router set may hold
MaxMiddlewares == 3     \* middlewares of one route

Routers == {"A", "B"}
Methods == {"GET", "POST", "OPTIONS", "CONNECT"}

Slash == <<"/">>
Star == <<"*">>

\* Patterns offered to Register.
RoutePatterns ==
    { <<"/", "p">>,
      <<"/", "p", "/">>,
      <<"/", "u", "/", ":", "a", "/", "*", "b">> }
ValidPatterns == RoutePatterns \cup { <<"/", "u", "/", ":", "c">> }
BadPatterns ==
    { <<"p">>,                               \* does not begin with '/'
      <<"/", "u", "/", "*", "b", "/", "x">>, \* catch-all not final
      <<"/", "u", "*", "b">> }               \* catch-all not preceded by '/'
Patterns == ValidPatterns \cup BadPatterns

\* Request paths offered to Handle.
ReqPaths ==
    { Slash, Star,
      <<"/", "p">>, <<"/", "p", "/">>,
      <<"/", "P">>, <<"/", ".", "/", "p">>,
      <<"/", "u", "/", "x", "/", "y">>,
      <<"/", "u", "/", "x">> }

\* The lists of middlewares offered to Register: TRUE is a middleware that
\* invokes its continuation, FALSE one that does not.
RECURSIVE SeqsUpTo(_)
SeqsUpTo(n) ==
    IF n = 0 THEN {<<>>}
    ELSE SeqsUpTo(n - 1)
         \cup {Append(q, b) : q \in {x \in SeqsUpTo(n - 1) : Len(x) = n - 1}, b \in BOOLEAN}

MiddlewareLists == SeqsUpTo(MaxMiddlewares)

(***************************************************************************)
(* Byte-string helpers                                                     *)
(***************************************************************************)
Min(S) == CHOOSE x \in S : \A y \in S : x <= y

\* Index of the first '/' at or after j, Len(s)+1 if there is none.
SegEnd(s, j) == Min({k \in j..Len(s) : s[k] = "/"} \cup {Len(s) + 1})

Drop(s, n) == SubSeq(s, n + 1, Len(s))

ToLower(ch) ==
    CASE ch = "P" -> "p"
      [] ch = "U" -> "u"
      [] ch = "X" -> "x"
      [] ch = "Y" -> "y"
      [] OTHER -> ch

(***************************************************************************)
(* Handlers and contexts (values)                                          *)
(***************************************************************************)
\* A Handler value.  kind "nil" is Go's nil func; "route" a handler given to
\* Register (mws are the middlewares registered with it, each described by
\* whether it invokes its continuation); "Handle" the method value r.Handle of
\* router `router`; "custom" an application handler installed as NotFound or
\* MethodNotAllowed.
Hdl(kind, router, method, path, mws) ==
    [kind |-> kind, router |-> router, method |-> method, path |-> path, mws |-> mws]

NilHandler == Hdl("nil", "", "", <<>>, <<>>)

\* One observable effect of a dispatch, in the order it happened.
Ev(ev, i, h, val) == [ev |-> ev, i |-> i, h |-> h, val |-> val]

(***************************************************************************)
(* tree.go: the per-method trie, held as the set of its routes             *)
(***************************************************************************)
\* The pattern cut into literal bytes and wildcard segments (":name", "*name").
RECURSIVE Tokens(_, _)
Tokens(pat, i) ==
    IF i > Len(pat) THEN <<>>
    ELSE IF pat[i] \in {":", "*"}
         THEN <<SubSeq(pat, i, SegEnd(pat, i) - 1)>> \o Tokens(pat, SegEnd(pat, i))
         ELSE << <<pat[i]>> >> \o Tokens(pat, i + 1)

IsWild(tok) == tok[1] \in {":", "*"}

\* Two patterns cannot share a trie: where they part, one has a wildcard and
\* the other a different wildcard name or a static byte.
WildcardConflict(p, q) ==
    LET tp == Tokens(p, 1)
        tq == Tokens(q, 1)
        n == Min({Len(tp), Len(tq)})
        diff == {k \in 1..n : tp[k] # tq[k]}
    IN  diff # {} /\ (IsWild(tp[Min(diff)]) \/ IsWild(tq[Min(diff)]))

\* A catch-all that is not the final segment, or not preceded by '/'.
BadCatchAll(pat) ==
    \E i \in 1..Len(pat) :
        /\ pat[i] = "*"
        /\ \/ SegEnd(pat, i) <= Len(pat)
           \/ i = 1
           \/ pat[i - 1] # "/"

\* node.addRoute: ok = FALSE stands for the panic, which leaves the node as it was.
addRoute(n, path, handler) ==
    IF \/ BadCatchAll(path)
       \/ \E rt \in n : rt.path = path
       \/ \E rt \in n : WildcardConflict(rt.path, path)
    THEN [ok |-> FALSE, node |-> n]
    ELSE [ok |-> TRUE, node |-> n \cup {[path |-> path, handler |-> handler]}]

\* The walk of one pattern over a path, byte by byte.  ci: compare literal bytes
\* case-insensitively.  ps: the params captured so far, out: the path rebuilt
\* in the pattern's casing.
RECURSIVE Walk(_, _, _, _, _, _, _)
Walk(pat, i, path, j, ci, ps, out) ==
    IF i > Len(pat)
    THEN [ok |-> j > Len(path), ps |-> ps, out |-> out]
    ELSE IF pat[i] = ":"
    THEN LET e == SegEnd(pat, i)
             v == SegEnd(path, j)
         IN  IF v = j
             THEN [ok |-> FALSE, ps |-> ps, out |-> out]
             ELSE Walk(pat, e, path, v, ci,
                       Append(ps, [Key |-> SubSeq(pat, i + 1, e - 1),
                                   Value |-> SubSeq(path, j, v - 1)]),
                       out \o SubSeq(path, j, v - 1))
    ELSE IF pat[i] = "*"
    THEN [ok |-> TRUE,
          ps |-> Append(ps, [Key |-> SubSeq(pat, i + 1, Len(pat)),
                             Value |-> SubSeq(path, j - 1, Len(path))]),
          out |-> out \o SubSeq(path, j, Len(path))]
    ELSE IF /\ j <= Len(path)
            /\ IF ci THEN ToLower(path[j]) = ToLower(pat[i]) ELSE path[j] = pat[i]
    THEN Walk(pat, i + 1, path, j + 1, ci, ps, Append(out, pat[i]))
    ELSE [ok |-> FALSE, ps |-> ps, out |-> out]

\* The same path with its trailing slash removed or added.
ToggleSlash(path) ==
    IF Len(path) > 1 /\ path[Len(path)] = "/"
    THEN SubSeq(path, 1, Len(path) - 1)
    ELSE Append(path, "/")

\* node.getValue: (handler, params, trailing-slash recommendation).
getValue(n, path) ==
    LET hits == {rt \in n : Walk(rt.path, 1, path, 1, FALSE, <<>>, <<>>).ok}
    IN  IF hits # {}
        THEN LET rt == CHOOSE x \in hits : TRUE
             IN  [handler |-> rt.handler,
                  ps |-> Walk(rt.path, 1, path, 1, FALSE, <<>>, <<>>).ps,
                  tsr |-> FALSE]
        ELSE [handler |-> NilHandler,
              ps |-> <<>>,
              tsr |-> \E rt \in n :
                         Walk(rt.path, 1, ToggleSlash(path), 1, FALSE, <<>>, <<>>).ok]

\* node.findCaseInsensitivePath: (corrected path, found).
findCaseInsensitivePath(n, path, fixTrailingSlash) ==
    LET hits(p) == {rt \in n : Walk(rt.path, 1, p, 1, TRUE, <<>>, <<>>).ok}
        fix(p) == Walk((CHOOSE x \in hits(p) : TRUE).path, 1, p, 1, TRUE, <<>>, <<>>).out
    IN  IF hits(path) # {}
        THEN [ciPath |-> fix(path), found |-> TRUE]
        ELSE IF fixTrailingSlash /\ hits(ToggleSlash(path)) # {}
        THEN [ciPath |-> fix(ToggleSlash(path)), found |-> TRUE]
        ELSE [ciPath |-> <<>>, found |-> FALSE]

(***************************************************************************)
(* path.go CleanPath, and the cleaning net/http's Redirect applies         *)
(***************************************************************************)
\* The segments of p between slashes, from index j on.
RECURSIVE Segments(_, _)
Segments(p, j) ==
    IF j > Len(p) THEN <<>>
    ELSE <<SubSeq(p, j, SegEnd(p, j) - 1)>> \o Segments(p, SegEnd(p, j) + 1)

\* Resolve "." and ".." and drop empty segments; stack holds the kept segments.
RECURSIVE Resolve(_, _, _)
Resolve(segs, k, stack) ==
    IF k > Len(segs) THEN stack
    ELSE IF segs[k] = <<>> \/ segs[k] = <<".">> THEN Resolve(segs, k + 1, stack)
    ELSE IF segs[k] = <<".", ".">>
         THEN Resolve(segs, k + 1,
                      IF stack = <<>> THEN stack ELSE SubSeq(stack, 1, Len(stack) - 1))
    ELSE Resolve(segs, k + 1, Append(stack, segs[k]))

RECURSIVE Join(_, _)
Join(stack, k) ==
    IF k > Len(stack) THEN <<>> ELSE Slash \o stack[k] \o Join(stack, k + 1)

Rooted(stack, trailing) ==
    IF stack = <<>> THEN Slash
    ELSE Join(stack, 1) \o (IF trailing THEN Slash ELSE <<>>)

\* CleanPath: the canonical rooted path; a trailing slash is kept.
CleanPath(p) ==
    LET segs == Segments(p, 1)
    IN  Rooted(Resolve(segs, 1, <<>>),
               /\ Len(p) > 1
               /\ (p[Len(p)] = "/" \/ segs[Len(segs)] = <<".">>))

\* url.URL.String() of a URL that has only a path of unreserved bytes.
URLString(u) == u.Path

\* http.Redirect(w, req, url, code) for a rooted url: the Location written is
\* path.Clean(url), with the trailing slash of url kept.
RedirectLocation(url) ==
    Rooted(Resolve(Segments(url, 1), 1, <<>>), Len(url) > 0 /\ url[Len(url)] = "/")

(***************************************************************************)
(* router.go                                                               *)
(***************************************************************************)
StatusMovedPermanently == 301
StatusTemporaryRedirect == 307
StatusMethodNotAllowed == 405

\* goa.Context as the test helper handle() fills it for a request.
NewContext(method, path) ==
    [Method |-> method, Path |-> path, URL |-> [Path |-> path],
     Params |-> <<>>, log |-> <<>>]

NoRequest == [r |-> "", via |-> "", method |-> "", path |-> <<>>]

Log(ctx, e) == [ctx EXCEPT !.log = Append(@, e)]

\* c.Error panics with a goa.Error: nothing of the dispatch runs after it.
Panicked(ctx) == \E k \in 1..Len(ctx.log) : ctx.log[k].ev = "Error"

\* compose(m)(c): dispatch(i) runs m[i], whose continuation is dispatch(i+1);
\* dispatch(len(m)) returns.  A middleware appends a marker before and after
\* the point where it calls (or does not call) its continuation.
RECURSIVE dispatch(_, _)
dispatch(m, i) ==
    IF i = Len(m)
    THEN <<>>
    ELSE <<Ev("before", i + 1, NilHandler, <<>>)>>
         \o (IF m[i + 1] THEN dispatch(m, i + 1) ELSE <<>>)
         \o <<Ev("after", i + 1, NilHandler, <<>>)>>

compose(m) == dispatch(m, 0)

\* The closure Register binds when middlewares are given:
\* compose(middlewares)(c); handler(c).
middlewareHandler(middlewares, handler) ==
    compose(middlewares) \o <<Ev("handler", 0, handler, <<>>)>>

\* What Register hands to addRoute.
Bound(r, method, path, middlewares) ==
    IF Len(middlewares) > 0
    THEN Hdl("middlewareHandler", r, method, path, middlewares)
    ELSE Hdl("route", r, method, path, <<>>)

\* The orders in which `range r.trees` may visit the methods of the map.
Perms(S) ==
    {f \in [1..Cardinality(S) -> S] : \A i, j \in 1..Cardinality(S) : f[i] = f[j] => i = j}

RangeOrders(r) == Perms(DOMAIN trees[r])

\* Mutant of allowed: the OPTIONS trie is not skipped for a specific path.
allowedKeepsOPTIONS(r, path, reqMethod, order) ==
    LET serverWide(method) == method # "OPTIONS"
        specific(method) ==
            /\ method # reqMethod
            /\ getValue(trees[r][method], path).handler # NilHandler
        allow == IF path = Star
                 THEN SelectSeq(order, serverWide)
                 ELSE SelectSeq(order, specific)
    IN  IF Len(allow) > 0 THEN Append(allow, "OPTIONS") ELSE allow

\* Mutant of allowed: ", OPTIONS" is not appended.
allowedNoOPTIONS(r, path, reqMethod, order) ==
    LET serverWide(method) == method # "OPTIONS"
        specific(method) ==
            /\ ~(method = reqMethod \/ method = "OPTIONS")
            /\ getValue(trees[r][method], path).handler # NilHandler
    IN  IF path = Star
        THEN SelectSeq(order, serverWide)
        ELSE SelectSeq(order, specific)

\* Mutant of allowed: a specific path is not looked up in the other tries.
allowedAnyPath(r, path, reqMethod, order) ==
    LET serverWide(method) == method # "OPTIONS"
        specific(method) == ~(method = reqMethod \/ method = "OPTIONS")
        allow == IF path = Star
                 THEN SelectSeq(order, serverWide)
                 ELSE SelectSeq(order, specific)
    IN  IF Len(allow) > 0 THEN Append(allow, "OPTIONS") ELSE allow

\* Mutant of allowed: ", OPTIONS" is appended to an empty list too.
allowedAlwaysOPTIONS(r, path, reqMethod, order) ==
    LET serverWide(method) == method # "OPTIONS"
        specific(method) ==
            /\ ~(method = reqMethod \/ method = "OPTIONS")
            /\ getValue(trees[r][method], path).handler # NilHandler
        allow == IF path = Star
                 THEN SelectSeq(order, serverWide)
                 ELSE SelectSeq(order, specific)
    IN  Append(allow, "OPTIONS")

\* Router.allowed, with `order` the order in which the map is ranged over.
allowed(r, path, reqMethod, order) ==
    LET serverWide(method) == method # "OPTIONS"
        specific(method) ==
            /\ ~(method = reqMethod \/ method = "OPTIONS")
            /\ getValue(trees[r][method], path).handler # NilHandler
        allow == IF path = Star
                 THEN SelectSeq(order, serverWide)
                 ELSE SelectSeq(order, specific)
    IN  IF Len(allow) > 0 THEN Append(allow, "OPTIONS") ELSE allow

\* Mutant of redirectCode: a permanent redirect whatever the method.
redirectCodeAlways301(method) == StatusMovedPermanently

\* Handle: 301 for a GET request, 307 for every other method.
redirectCode(method) ==
    IF method # "GET" THEN StatusTemporaryRedirect ELSE StatusMovedPermanently

\* Handle: the path a trailing-slash redirect goes to.
tsrPath(path) ==
    IF Len(path) > 1 /\ path[Len(path)] = "/"
    THEN SubSeq(path, 1, Len(path) - 1)
    ELSE path \o Slash

\* Mutant of withParams: the looked-up params are not stored.
withParamsDropped(ctx, ps) == ctx

\* Handle: c.Params = ps before the matched handler runs.
withParams(ctx, ps) == [ctx EXCEPT !.Params = ps]

\* Router.Handle.  ord[r] is the range order of router r's map.
RECURSIVE Handle(_, _, _)
Handle(r, ctx, ord) ==
    LET path == ctx.Path
        hasRoot == ctx.Method \in DOMAIN trees[r]
        v == IF hasRoot
             THEN getValue(trees[r][ctx.Method], path)
             ELSE [handler |-> NilHandler, ps |-> <<>>, tsr |-> FALSE]
        code == redirectCode(ctx.Method)
        tsrCtx == [ctx EXCEPT !.URL.Path = tsrPath(path), !.Path = tsrPath(path)]
        fixed == IF hasRoot
                 THEN findCaseInsensitivePath(trees[r][ctx.Method], CleanPath(path),
                                              RedirectTrailingSlash[r])
                 ELSE [ciPath |-> <<>>, found |-> FALSE]
        fixCtx == [ctx EXCEPT !.Path = fixed.ciPath]
        allow == allowed(r, path, ctx.Method, ord[r])
        allowCtx == Log(ctx, Ev("SetHeader", 0, NilHandler, allow))
        Invoke(h, cx) ==
            CASE h.kind = "Handle" -> Handle(h.router, cx, ord)
              [] h.kind = "middlewareHandler" ->
                    [cx EXCEPT !.log = @ \o middlewareHandler(h.mws,
                                           Hdl("route", h.router, h.method, h.path, <<>>))]
              [] OTHER -> Log(cx, Ev("handler", 0, h, <<>>))
    IN  IF hasRoot /\ v.handler # NilHandler
        THEN Invoke(v.handler, withParams(ctx, v.ps))
        ELSE IF /\ hasRoot /\ ctx.Method # "CONNECT" /\ path # Slash
                /\ v.tsr /\ RedirectTrailingSlash[r]
        THEN Log(tsrCtx, Ev("Redirect", code, NilHandler,
                            RedirectLocation(URLString(tsrCtx.URL))))
        ELSE IF /\ hasRoot /\ ctx.Method # "CONNECT" /\ path # Slash
                /\ RedirectFixedPath[r] /\ fixed.found
        THEN Log(fixCtx, Ev("Redirect", code, NilHandler,
                            RedirectLocation(URLString(fixCtx.URL))))
        ELSE IF ctx.Method = "OPTIONS" /\ HandleOPTIONS[r] /\ Len(allow) > 0
        THEN allowCtx
        ELSE IF /\ ~(ctx.Method = "OPTIONS" /\ HandleOPTIONS[r])
                /\ HandleMethodNotAllowed[r] /\ Len(allow) > 0
        THEN IF MethodNotAllowed[r] # NilHandler
             THEN Invoke(MethodNotAllowed[r], allowCtx)
             ELSE Log(allowCtx, Ev("Error", StatusMethodNotAllowed, NilHandler, <<>>))
        ELSE IF NotFound[r] # NilHandler
        THEN Invoke(NotFound[r], ctx)
        ELSE ctx

(***************************************************************************)
(* Actions                                                                 *)
(***************************************************************************)
\* New() for every router; no request dispatched yet.
Init ==
    /\ trees = [r \in Routers |-> <<>>]
    /\ RedirectTrailingSlash = [r \in Routers |-> TRUE]
    /\ RedirectFixedPath = [r \in Routers |-> TRUE]
    /\ HandleMethodNotAllowed = [r \in Routers |-> TRUE]
    /\ HandleOPTIONS = [r \in Routers |-> TRUE]
    /\ NotFound = [r \in Routers |-> NilHandler]
    /\ MethodNotAllowed = [r \in Routers |-> NilHandler]
    /\ req = NoRequest
    /\ c = NewContext("", <<>>)
    /\ prev = NewContext("", <<>>)
    /\ nextCalls = 0

\* No request is being served.  Registration and the assignment of the
\* router's fields happen between requests, never during a dispatch.
Idle == req = NoRequest

\* Trie roots and routes held by all routers together.
Size ==
    LET n(r, m) == IF trees[r][m] = {} THEN 1 ELSE Cardinality(trees[r][m])
        RECURSIVE Sum(_)
        Sum(S) == IF S = {} THEN 0
                  ELSE LET x == CHOOSE y \in S : TRUE IN n(x[1], x[2]) + Sum(S \ {x})
    IN  Sum({<<r, m>> \in Routers \X Methods : m \in DOMAIN trees[r]})

\* Router.Register(method, path, handler, middlewares).  A panic (of Register
\* itself or of addRoute) ends the call; the state is what the call had
\* assigned before it.
Register(r, method, path, middlewares) ==
    /\ Idle
    /\ Size < MaxRoutes
    /\ IF path[1] # "/"
       THEN UNCHANGED trees
       ELSE LET root == IF method \in DOMAIN trees[r] THEN trees[r][method] ELSE {}
                added == addRoute(root, path, Bound(r, method, path, middlewares))
            IN  trees' = [trees EXCEPT ![r] = (method :> added.node) @@ @]
    /\ UNCHANGED <<RedirectTrailingSlash, RedirectFixedPath, HandleMethodNotAllowed,
                   HandleOPTIONS, NotFound, MethodNotAllowed, req, c, prev, nextCalls>>

\* The exported fields, assigned by the application.
SetRedirectTrailingSlash(r, b) ==
    /\ Idle
    /\ RedirectTrailingSlash' = [RedirectTrailingSlash EXCEPT ![r] = b]
    /\ UNCHANGED <<trees, RedirectFixedPath, HandleMethodNotAllowed, HandleOPTIONS,
                   NotFound, MethodNotAllowed, req, c, prev, nextCalls>>

SetRedirectFixedPath(r, b) ==
    /\ Idle
    /\ RedirectFixedPath' = [RedirectFixedPath EXCEPT ![r] = b]
    /\ UNCHANGED <<trees, RedirectTrailingSlash, HandleMethodNotAllowed, HandleOPTIONS,
                   NotFound, MethodNotAllowed, req, c, prev, nextCalls>>

SetHandleMethodNotAllowed(r, b) ==
    /\ Idle
    /\ HandleMethodNotAllowed' = [HandleMethodNotAllowed EXCEPT ![r] = b]
    /\ UNCHANGED <<trees, RedirectTrailingSlash, RedirectFixedPath, HandleOPTIONS,
                   NotFound, MethodNotAllowed, req, c, prev, nextCalls>>

SetHandleOPTIONS(r, b) ==
    /\ Idle
    /\ HandleOPTIONS' = [HandleOPTIONS EXCEPT ![r] = b]
    /\ UNCHANGED <<trees, RedirectTrailingSlash, RedirectFixedPath,
                   HandleMethodNotAllowed, NotFound, MethodNotAllowed, req, c, prev,
                   nextCalls>>

SetNotFound(r, h) ==
    /\ Idle
    /\ NotFound' = [NotFound EXCEPT ![r] = h]
    /\ UNCHANGED <<trees, RedirectTrailingSlash, RedirectFixedPath,
                   HandleMethodNotAllowed, HandleOPTIONS, MethodNotAllowed, req, c, prev,
                   nextCalls>>

SetMethodNotAllowed(r, h) ==
    /\ Idle
    /\ MethodNotAllowed' = [MethodNotAllowed EXCEPT ![r] = h]
    /\ UNCHANGED <<trees, RedirectTrailingSlash, RedirectFixedPath,
                   HandleMethodNotAllowed, HandleOPTIONS, NotFound, req, c, prev, nextCalls>>

CustomNotFound(r) == Hdl("custom", r, "NotFound", <<>>, <<>>)
CustomMethodNotAllowed(r) == Hdl("custom", r, "MethodNotAllowed", <<>>, <<>>)
HandleOf(r) == Hdl("Handle", r, "", <<>>, <<>>)

\* The range orders the routers' maps may take during one dispatch.
Orders ==
    {[r \in Routers |-> IF r = "A" THEN oa ELSE ob] :
        oa \in RangeOrders("A"), ob \in RangeOrders("B")}

\* One request dispatched by calling r.Handle(c) on a fresh context.
HandleReq(r, method, path) ==
    /\ Idle
    /\ \E ord \in Orders : c' = Handle(r, NewContext(method, path), ord)
    /\ req' = [r |-> r, via |-> "Handle", method |-> method, path |-> path]
    /\ UNCHANGED <<config, prev, nextCalls>>

\* Mutant of Routes: the continuation is never invoked.
RoutesWithoutNext(r, method, path) ==
    /\ Idle
    /\ \E ord \in Orders : c' = Handle(r, NewContext(method, path), ord)
    /\ req' = [r |-> r, via |-> "Routes", method |-> method, path |-> path]
    /\ nextCalls' = 0
    /\ UNCHANGED <<config, prev>>

\* One request dispatched through the middleware Routes() returns:
\* r.Handle(c); next().  A panic in Handle unwinds past the call of next.
Routes(r, method, path) ==
    /\ Idle
    /\ \E ord \in Orders : c' = Handle(r, NewContext(method, path), ord)
    /\ req' = [r |-> r, via |-> "Routes", method |-> method, path |-> path]
    /\ nextCalls' = IF Panicked(c') THEN 0 ELSE 1
    /\ UNCHANGED <<config, prev>>

\* Mutant of HandleAgain: the lookup leaves a root for the request's method
\* in the map, as Register does.
HandleAgainCreatesRoot(r) ==
    /\ req.r = r
    /\ req.via = "Handle"
    /\ \E ord \in Orders : c' = Handle(r, NewContext(req.method, req.path), ord)
    /\ prev' = c
    /\ req' = [req EXCEPT !.via = "HandleAgain"]
    /\ trees' = [trees EXCEPT ![r] = (req.method :> {}) @@ @]
    /\ UNCHANGED <<RedirectTrailingSlash, RedirectFixedPath, HandleMethodNotAllowed,
                   HandleOPTIONS, NotFound, MethodNotAllowed, nextCalls>>

\* The request just dispatched by r.Handle(c) is dispatched once more, on a
\* fresh context, with nothing registered or assigned in between.  The map
\* is ranged over anew, in whatever order that range takes.
HandleAgain(r) ==
    /\ req.r = r
    /\ req.via = "Handle"
    /\ \E ord \in Orders : c' = Handle(r, NewContext(req.method, req.path), ord)
    /\ prev' = c
    /\ req' = [req EXCEPT !.via = "HandleAgain"]
    /\ UNCHANGED <<config, nextCalls>>

\* The caller is done with the request: its context is dropped.
Return ==
    /\ ~Idle
    /\ req' = NoRequest
    /\ c' = NewContext("", <<>>)
    /\ prev' = NewContext("", <<>>)
    /\ nextCalls' = 0
    /\ UNCHANGED config

(***************************************************************************)
(* Specifications                                                          *)
(***************************************************************************)
\* Redirects: one router, its redirect switches and NotFound, every request.
RedirectMethods == {"GET", "POST", "CONNECT"}

Next ==
    \/ \E m \in RedirectMethods, p \in RoutePatterns : Register("A", m, p, <<>>)
    \/ \E b \in BOOLEAN : SetRedirectTrailingSlash("A", b)
    \/ \E b \in BOOLEAN : SetRedirectFixedPath("A", b)
    \/ \E h \in {NilHandler, CustomNotFound("A")} : SetNotFound("A", h)
    \/ \E m \in RedirectMethods, p \in ReqPaths : HandleReq("A", m, p)
    \/ Return

Spec == Init /\ [][Next]_vars

\* Allowed methods: one router, its OPTIONS and 405 switches and handlers,
\* failing registrations included.
AllowMethods == {"GET", "POST", "OPTIONS"}
AllowPaths ==
    { Star, <<"/", "p">>, <<"/", "p", "/">>, <<"/", "u", "/", "x", "/", "y">>,
      <<"/", "u", "/", "x">> }

AllowPatterns == RoutePatterns \cup { <<"/", "u", "*", "b">> }

AllowConfig ==
    \/ \E m \in AllowMethods, p \in AllowPatterns : Register("A", m, p, <<>>)
    \/ \E b \in BOOLEAN : SetRedirectTrailingSlash("A", b)
    \/ \E b \in BOOLEAN : SetHandleMethodNotAllowed("A", b)
    \/ \E b \in BOOLEAN : SetHandleOPTIONS("A", b)
    \/ \E h \in {NilHandler, CustomNotFound("A")} : SetNotFound("A", h)
    \/ \E h \in {NilHandler, CustomMethodNotAllowed("A")} : SetMethodNotAllowed("A", h)

NextAllow ==
    \/ AllowConfig
    \/ \E m \in AllowMethods, p \in AllowPaths : HandleReq("A", m, p)
    \/ Return

SpecAllow == Init /\ [][NextAllow]_vars

\* The same router behind the middleware Routes() returns.
NextRoutes ==
    \/ AllowConfig
    \/ \E m \in AllowMethods, p \in AllowPaths : Routes("A", m, p)
    \/ Return

SpecRoutes == Init /\ [][NextRoutes]_vars

\* Route middlewares.
MWMethods == {"GET", "POST"}
MWPatterns == { <<"/", "p">> }

NextMW ==
    \/ \E m \in MWMethods, p \in MWPatterns, mws \in MiddlewareLists :
          Register("A", m, p, mws)
    \/ \E m \in MWMethods, p \in {<<"/", "p">>, <<"/", "p", "/">>} : HandleReq("A", m, p)
    \/ Return

SpecMW == Init /\ [][NextMW]_vars

\* Chaining: router A's NotFound may be router B's Handle.
ChainMethods == {"GET", "POST", "OPTIONS"}
ChainPatterns == { <<"/", "p">>, <<"/", "p", "/">>, <<"/", "u", "/", ":", "c">> }
ChainPaths == { <<"/", "p">>, <<"/", "p", "/">>, <<"/", "P">>, <<"/", "u", "/", "x">> }

NextChain ==
    \/ \E r \in Routers, m \in ChainMethods, p \in ChainPatterns : Register(r, m, p, <<>>)
    \/ \E h \in {NilHandler, HandleOf("B")} : SetNotFound("A", h)
    \/ \E m \in ChainMethods, p \in ChainPaths : HandleReq("A", m, p)
    \/ Return

SpecChain == Init /\ [][NextChain]_vars

\* Registration, failing calls included.
NextReg ==
    \/ \E m \in Methods, p \in Patterns : Register("A", m, p, <<>>)
    \/ \E m \in Methods, p \in {Star, <<"/", "p">>} : HandleReq("A", m, p)
    \/ Return

SpecReg == Init /\ [][NextReg]_vars

\* The same request dispatched twice: one router, its 405, OPTIONS and
\* NotFound settings, every request path.
NextTwice ==
    \/ \E m \in AllowMethods, p \in RoutePatterns : Register("A", m, p, <<>>)
    \/ \E b \in BOOLEAN : SetHandleMethodNotAllowed("A", b)
    \/ \E b \in BOOLEAN : SetHandleOPTIONS("A", b)
    \/ \E h \in {NilHandler, CustomNotFound("A")} : SetNotFound("A", h)
    \/ \E m \in AllowMethods, p \in ReqPaths : HandleReq("A", m, p)
    \/ HandleAgain("A")
    \/ Return

SpecTwice == Init /\ [][NextTwice]_vars

(***************************************************************************)
(* Properties                                                              *)
(***************************************************************************)
\* What the trie of the request's method returns for the request's path.
NoValue == [handler |-> NilHandler, ps |-> <<>>, tsr |-> FALSE]

Looked ==
    IF req.method \in DOMAIN trees[req.r]
    THEN getValue(trees[req.r][req.method], req.path)
    ELSE NoValue

\* What the case-insensitive search of the cleaned request path returns.
Fixed ==
    IF req.method \in DOMAIN trees[req.r]
    THEN findCaseInsensitivePath(trees[req.r][req.method], CleanPath(req.path),
                                 RedirectTrailingSlash[req.r])
    ELSE [ciPath |-> <<>>, found |-> FALSE]

HasEv(kind) == \E k \in 1..Len(c.log) : c.log[k].ev = kind

\* The names of a pattern's wildcards, left to right.
RECURSIVE WildcardNames(_, _)
WildcardNames(toks, k) ==
    IF k > Len(toks) THEN <<>>
    ELSE (IF IsWild(toks[k]) THEN <<Drop(toks[k], 1)>> ELSE <<>>)
         \o WildcardNames(toks, k + 1)

SlashToggled(p) ==
    IF p[Len(p)] = "/" THEN SubSeq(p, 1, Len(p) - 1) ELSE Append(p, "/")

CodeFor(method) == IF method = "GET" THEN 301 ELSE 307

\* C1: when the trie of the request's method holds a handler for the path,
\* Handle stores the looked-up params (one pair per wildcard of the pattern,
\* keyed in left-to-right pattern order), invokes that handler once, and does
\* nothing else: no redirect, no Allow header, no 405, no NotFound.
C1_MatchedHandlerRuns ==
    (~Idle /\ Looked.handler # NilHandler) =>
        LET names == WildcardNames(Tokens(Looked.handler.path, 1), 1)
        IN  /\ c.Params = Looked.ps
            /\ Len(c.Params) = Len(names)
            /\ \A k \in 1..Len(names) : c.Params[k].Key = names[k]
            /\ c.log = <<Ev("handler", 0, Looked.handler, <<>>)>>

\* An explicit OPTIONS route with two wildcards was matched while the
\* automatic replies and custom fallback handlers were all in place.
C1_Witness ==
    /\ req.method = "OPTIONS"
    /\ req.path = <<"/", "u", "/", "x", "/", "y">>
    /\ HandleOPTIONS["A"]
    /\ "GET" \in DOMAIN trees["A"]
    /\ NotFound["A"] # NilHandler
    /\ c.Params = <<[Key |-> <<"a">>, Value |-> <<"x">>],
                    [Key |-> <<"b">>, Value |-> <<"/", "y">>]>>
    /\ Len(c.log) = 1
    /\ c.log[1].ev = "handler"

C4_WitnessConnect ==
    /\ req.method = "CONNECT"
    /\ Looked.tsr
    /\ RedirectTrailingSlash["A"]
    /\ ~HasEv("Redirect")

\* C5: when lookup fails, no trailing-slash redirect is taken,
\* RedirectFixedPath is on and the case-insensitive search of the cleaned path
\* finds a corrected path, the redirect (301 for GET, 307 otherwise) has the
\* corrected path as its Location.
C5_FixedPathLocation ==
    ( /\ ~Idle
      /\ req.method \in DOMAIN trees[req.r]
      /\ Looked.handler = NilHandler
      /\ ~(Looked.tsr /\ RedirectTrailingSlash[req.r])
      /\ req.method # "CONNECT"
      /\ req.path # Slash
      /\ RedirectFixedPath[req.r]
      /\ Fixed.found )
    => c.log = <<Ev("Redirect", CodeFor(req.method), NilHandler, Fixed.ciPath)>>

\* The non-OPTIONS methods, other than the request's, whose trie holds a
\* handler for exactly the request's path.
OtherMethodsAtPath ==
    {m \in DOMAIN trees[req.r] \ {req.method, "OPTIONS"} :
        getValue(trees[req.r][m], req.path).handler # NilHandler}

\* The methods that qualify for the automatic OPTIONS reply.
QualifyingForOPTIONS ==
    IF req.path = Star
    THEN DOMAIN trees[req.r] \ {"OPTIONS"}
    ELSE OtherMethodsAtPath

\* allow lists exactly the methods of S, each once, then OPTIONS.
ListsThenOPTIONS(allow, S) ==
    /\ Len(allow) = Cardinality(S) + 1
    /\ allow[Len(allow)] = "OPTIONS"
    /\ {allow[k] : k \in 1..Len(allow) - 1} = S

\* C6: a non-OPTIONS request that matched no route and took no redirect, with
\* HandleMethodNotAllowed on and some other non-OPTIONS method holding a
\* handler at exactly the path, sets Allow to those methods followed by
\* OPTIONS, then runs the custom MethodNotAllowed handler if one is set and
\* signals 405 otherwise; NotFound is not invoked.
C6_MethodNotAllowed ==
    ( /\ ~Idle
      /\ req.method # "OPTIONS"
      /\ HandleMethodNotAllowed[req.r]
      /\ Looked.handler = NilHandler
      /\ ~HasEv("Redirect")
      /\ OtherMethodsAtPath # {} )
    => /\ Len(c.log) = 2
       /\ c.log[1].ev = "SetHeader"
       /\ ListsThenOPTIONS(c.log[1].val, OtherMethodsAtPath)
       /\ req.method \notin {c.log[1].val[k] : k \in 1..Len(c.log[1].val)}
       /\ c.log[2] = IF MethodNotAllowed[req.r] # NilHandler
                     THEN Ev("handler", 0, MethodNotAllowed[req.r], <<>>)
                     ELSE Ev("Error", 405, NilHandler, <<>>)

\* GET /p with POST /p and an OPTIONS /p route registered, the GET trie
\* present, custom MethodNotAllowed and NotFound handlers installed.
C6_Witness ==
    /\ req.method = "GET"
    /\ req.path = <<"/", "p">>
    /\ DOMAIN trees["A"] = {"GET", "POST", "OPTIONS"}
    /\ NotFound["A"] # NilHandler
    /\ c.log = <<Ev("SetHeader", 0, NilHandler, <<"POST", "OPTIONS">>),
                 Ev("handler", 0, CustomMethodNotAllowed("A"), <<>>)>>

\* The same request answered through the 405 error when no custom handler is set.
C6_WitnessError ==
    /\ req.method = "GET"
    /\ c.log = <<Ev("SetHeader", 0, NilHandler, <<"POST", "OPTIONS">>),
                 Ev("Error", 405, NilHandler, <<>>)>>

\* C7: with HandleOPTIONS on, an OPTIONS request that matched no OPTIONS route
\* and took no redirect, and for which some non-OPTIONS method qualifies (for
\* "*": every method with a trie; otherwise: a handler at exactly the path),
\* sets Allow to the qualifying methods followed by OPTIONS and does nothing
\* else; no route handler ever runs for OPTIONS *.
C7_AutomaticOPTIONS ==
    (~Idle /\ req.method = "OPTIONS") =>
        /\ ( /\ HandleOPTIONS[req.r]
             /\ Looked.handler = NilHandler
             /\ ~HasEv("Redirect")
             /\ QualifyingForOPTIONS # {} )
           => /\ Len(c.log) = 1
              /\ c.log[1].ev = "SetHeader"
              /\ c.log[1].h = NilHandler
              /\ ListsThenOPTIONS(c.log[1].val, QualifyingForOPTIONS)
        /\ req.path = Star =>
              \A k \in 1..Len(c.log) : c.log[k].h.kind \notin {"route", "middlewareHandler"}

\* OPTIONS * while a custom OPTIONS /p route and POST /p are registered.
C7_Witness ==
    /\ req.method = "OPTIONS"
    /\ req.path = Star
    /\ DOMAIN trees["A"] = {"OPTIONS", "POST"}
    /\ trees["A"]["OPTIONS"] # {}
    /\ NotFound["A"] # NilHandler
    /\ c.log = <<Ev("SetHeader", 0, NilHandler, <<"POST", "OPTIONS">>)>>

\* OPTIONS /p answered automatically with two qualifying methods.
C7_WitnessPath ==
    /\ req.method = "OPTIONS"
    /\ req.path = <<"/", "p">>
    /\ Len(c.log) = 1
    /\ c.log[1].ev = "SetHeader"
    /\ Len(c.log[1].val) = 3

\* The terminal handler a route was registered with.
Terminal(h) == Hdl("route", h.router, h.method, h.path, <<>>)

\* The trace of strict onion nesting: before-code of m1..mn, h, after-code of mn..m1.
Onion(n, h) ==
    [k \in 1..(2 * n + 1) |->
        IF k <= n THEN Ev("before", k, NilHandler, <<>>)
        ELSE IF k = n + 1 THEN Ev("handler", 0, h, <<>>)
        ELSE Ev("after", 2 * n + 2 - k, NilHandler, <<>>)]

\* C2: dispatching a route registered with middlewares m1..mn (n >= 1), each
\* invoking its continuation once, runs before-code of m1..mn, then the
\* terminal handler, then after-code of mn..m1.
C2_OnionOrder ==
    ( /\ ~Idle
      /\ Looked.handler.kind = "middlewareHandler"
      /\ \A i \in 1..Len(Looked.handler.mws) : Looked.handler.mws[i] )
    => c.log = Onion(Len(Looked.handler.mws), Terminal(Looked.handler))

\* C3: when some middleware mi of the dispatched route does not invoke its
\* continuation, none of m(i+1)..mn runs and the terminal handler does not run.
C3_ShortCircuit ==
    ( /\ ~Idle
      /\ Looked.handler.kind = "middlewareHandler"
      /\ \E i \in 1..Len(Looked.handler.mws) : ~Looked.handler.mws[i] )
    => LET i == Min({k \in 1..Len(Looked.handler.mws) : ~Looked.handler.mws[k]})
       IN  /\ \A k \in 1..Len(c.log) : c.log[k].ev = "before" => c.log[k].i <= i
           /\ ~HasEv("handler")

\* What router B's trie of the request's method returns for the request's path.
LookedOnB ==
    IF req.method \in DOMAIN trees["B"]
    THEN getValue(trees["B"][req.method], req.path)
    ELSE NoValue

\* Router A is chained to B, holds no route for the request, and B holds one.
ChainedMiss ==
    /\ ~Idle
    /\ req.r = "A"
    /\ NotFound["A"] = HandleOf("B")
    /\ Looked.handler = NilHandler
    /\ LookedOnB.handler # NilHandler

\* The request's own router redirects it.
Redirects ==
    /\ req.method \in DOMAIN trees[req.r]
    /\ req.method # "CONNECT"
    /\ req.path # Slash
    /\ \/ Looked.tsr /\ RedirectTrailingSlash[req.r]
       \/ RedirectFixedPath[req.r] /\ Fixed.found

\* C8 as stated: chained to B, every request B has a route for and A has not
\* reaches B's handler, whatever else is registered on A.
C8_ChainReachesBWhateverA ==
    ChainedMiss => HasEv("handler") /\ c.log[Len(c.log)].h = LookedOnB.handler

\* C8 as amended: chained to B (default switches), a request B has a route
\* for, A has no route for, A does not redirect and no other non-OPTIONS
\* method of A holds a handler for, runs B's handler and nothing else.
C8_ChainReachesB ==
    (ChainedMiss /\ ~Redirects /\ OtherMethodsAtPath = {})
    => /\ c.log = <<Ev("handler", 0, LookedOnB.handler, <<>>)>>
       /\ c.Params = LookedOnB.ps

\* A holds a trie for the request's method, and routes of its own, yet the
\* request falls through to B's handler.
C8_Witness ==
    /\ ChainedMiss
    /\ req.method \in DOMAIN trees["A"]
    /\ trees["A"][req.method] # {}
    /\ c.Params = <<[Key |-> <<"c">>, Value |-> <<"x">>]>>
    /\ c.log = <<Ev("handler", 0, LookedOnB.handler, <<>>)>>

\* Handle signals 405 through c.Error: no custom MethodNotAllowed handler, the
\* request neither matched nor redirected nor answered as OPTIONS, and some
\* method is allowed.
SignalsError ==
    /\ MethodNotAllowed[req.r] = NilHandler
    /\ HandleMethodNotAllowed[req.r]
    /\ ~(req.method = "OPTIONS" /\ HandleOPTIONS[req.r])
    /\ Looked.handler = NilHandler
    /\ ~Redirects
    /\ QualifyingForOPTIONS # {}

\* C9 as stated: the middleware of Routes() invokes its continuation exactly
\* once whatever the outcome of Handle.
C9_NextAlwaysCalled ==
    req.via = "Routes" => nextCalls = 1

\* C9 as amended: the continuation is invoked exactly once whenever Handle
\* returns (matched handler, redirect, automatic OPTIONS reply, custom
\* not-allowed handler, not found); when Handle signals 405 through c.Error,
\* whose panic unwinds the middleware, it is not invoked.
C9_NextUnlessError ==
    req.via = "Routes" =>
        /\ HasEv("Error") <=> SignalsError
        /\ nextCalls = IF SignalsError THEN 0 ELSE 1

\* The custom not-allowed handler ran, and the continuation after it.
C9_Witness ==
    /\ req.via = "Routes"
    /\ nextCalls = 1
    /\ HasEv("SetHeader")
    /\ c.log[Len(c.log)].h = CustomMethodNotAllowed("A")

\* The 405 error was signalled and the continuation never ran.
C9_WitnessError ==
    /\ req.via = "Routes"
    /\ nextCalls = 0
    /\ HasEv("Error")

\* C10: after any sequence of successful and failed Register calls, the
\* methods that have a trie (those reported for OPTIONS *) are exactly the
\* methods with at least one successfully registered route.
C10_TriesHaveRoutes ==
    \A r \in Routers : \A m \in DOMAIN trees[r] : trees[r][m] # {}

\* The request matched no route and took no redirect.
Missed == ~Idle /\ Looked.handler = NilHandler /\ ~HasEv("Redirect")

\* Nothing but the NotFound handler, once, when one is set; nothing at all
\* when none is set.
OnlyNotFound ==
    c.log = IF NotFound[req.r] # NilHandler
            THEN <<Ev("handler", 0, NotFound[req.r], <<>>)>>
            ELSE <<>>

C11_WitnessDisabled ==
    /\ req.method = "GET"
    /\ OtherMethodsAtPath # {}
    /\ ~HandleMethodNotAllowed["A"]
    /\ NotFound["A"] = NilHandler
    /\ c.log = <<>>

\* A step that is a dispatch: Handle has run and its context is at hand.
DispatchStep == req' # NoRequest

\* The methods an Allow value lists before its last entry.
Listed(allow) == {allow[k] : k \in 1..Len(allow) - 1}

\* Two contexts that differ at most in the order in which an Allow header
\* lists the methods before the OPTIONS that ends it.
SameButAllowOrder(x, y) ==
    /\ [x EXCEPT !.log = <<>>] = [y EXCEPT !.log = <<>>]
    /\ Len(x.log) = Len(y.log)
    /\ \A k \in 1..Len(x.log) :
          IF x.log[k].ev = "SetHeader"
          THEN /\ [x.log[k] EXCEPT !.val = <<>>] = [y.log[k] EXCEPT !.val = <<>>]
               /\ Len(x.log[k].val) = Len(y.log[k].val)
               /\ Listed(x.log[k].val) = Listed(y.log[k].val)
               /\ x.log[k].val[Len(x.log[k].val)] = "OPTIONS"
               /\ y.log[k].val[Len(y.log[k].val)] = "OPTIONS"
          ELSE x.log[k] = y.log[k]

C12_WitnessOrder ==
    /\ req.via = "HandleAgain"
    /\ c # prev
    /\ HasEv("SetHeader")

====
